---- MODULE Spec2Model ----
(***************************************************************************)
(* A model of the rain task executor.                                      *)
(*                                                                         *)
(*  - worker side: TaskInstance::start / stop and the delegation of a      *)
(*    task to a helper process (src/src/worker/tasks/instance.rs);         *)
(*  - server side: the per-worker upstream handle, update_states and its   *)
(*    release (src/src/server/rpc/worker.rs).                              *)
(*  - common: AsyncInitWrapper, the value that is set once and waited for  *)
(*    by many (src/src/common/asycinit.rs).                                *)
(*                                                                         *)
(* Each process runs one event loop: every action below is one callback    *)
(* or one poll of a spawned future, executed atomically.                   *)
(***************************************************************************)
EXTENDS Integers, Sequences, FiniteSets, TLC

(***************************************************************************)
(* Bounds of the model.                                                    *)
(***************************************************************************)
NTasks == 2        \* tasks handed to the worker
MaxOutputs == 2    \* declared outputs per task, at most
NCpus == 2         \* cpu capacity of the worker

Tasks == 1..NTasks

Min(a, b) == IF a <= b THEN a ELSE b

(***************************************************************************)
(* Task types.  A type is the pair <<marker, name>>: marker is "!" when    *)
(* the type string starts with '!', and "" otherwise.                      *)
(***************************************************************************)
TaskTypes ==
    { <<"!", "run">>, <<"!", "concat">>, <<"!", "sleep">>, <<"!", "open">>,
      <<"!", "bogus">>, <<"", "py">> }

\* The types of the tasks the executor below runs: one built-in type (the
\* four built-in handlers are interchangeable for the executor), one type
\* that is marked built-in but unknown, and one delegated type.
ExecTypes == { <<"!", "sleep">>, <<"!", "bogus">>, <<"", "py">> }

starts_with_bang(ty) == ty[1] = "!"

\* Variant of task_fn that hands every type without a built-in handler to
\* the subworker dispatcher.
task_fn_delegates_unknown(ty) ==
    IF ~starts_with_bang(ty) THEN "start_task_in_subworker"
    ELSE CASE ty[2] = "run"    -> "task_run"
           [] ty[2] = "concat" -> "task_concat"
           [] ty[2] = "sleep"  -> "task_sleep"
           [] ty[2] = "open"   -> "task_open"
           [] OTHER            -> "start_task_in_subworker"

\* The match of start (lines 49-56): which function becomes task_fn.
task_fn(ty) ==
    IF ~starts_with_bang(ty) THEN "start_task_in_subworker"
    ELSE CASE ty[2] = "run"    -> "task_run"
           [] ty[2] = "concat" -> "task_concat"
           [] ty[2] = "sleep"  -> "task_sleep"
           [] ty[2] = "open"   -> "task_open"
           [] OTHER            -> "fail_unknown_type"

BuiltinFns == {"task_run", "task_concat", "task_sleep", "task_open"}

(***************************************************************************)
(* Failure reasons, as the code writes them.                               *)
(***************************************************************************)
ReasonUnknownType == "Unknown task type"
ReasonNotProduced == "Some of outputs were not produced"
ReasonTerminated  == "Task terminated by server"
ReasonHandler     == "handler error"        \* Err of a built-in handler
ReasonSpawn       == "subworker spawn failed"
ReasonTransport   == "transport error"      \* capnp error of req.send()
ReasonDecode      == "data decode error"    \* Err of data_from_capnp
ReasonApp         == "boom"                 \* error_message of the helper

NoEvent == [kind |-> "none", ndata |-> 0, bad |-> 0]

\* What a helper process can answer to a run-task request: ok = true with
\* ndata data entries, of which entry `bad` (0: none) cannot be decoded;
\* ok = false with an error message; or no answer at all (transport error).
Responses ==
    { r \in { [kind |-> "app_ok", ndata |-> n, bad |-> b] :
                  n \in 0..MaxOutputs, b \in 0..MaxOutputs } : r.bad <= r.ndata }
    \cup { [kind |-> "app_fail", ndata |-> 0, bad |-> 0],
           [kind |-> "transport", ndata |-> 0, bad |-> 0] }

VARIABLES
    \* ---- worker: the tasks (worker::graph::Task) ----
    task_type,        \* task.task_type
    task_resources,   \* task.resources (cpus)
    n_outputs,        \* task.outputs.len()
    task_state,       \* task.state
    task_error,       \* the reason recorded by set_failed ("" when none)
    out_finished,     \* out_finished[t][i]: output i of t is_finished()
    out_set_data,     \* out_set_data[t][i]: number of set_data calls on it
    \* ---- worker: State ----
    free_cpus,        \* state.free_resources
    registered,       \* tasks known to state.graph (unregister_task removes)
    running_tasks,    \* keys of state.graph.running_tasks
    cancel_sender,    \* instance.cancel_sender: "Some" or "None"
    cancel_rx,        \* the one-shot channel holds the cancellation signal
    idle_subworkers,  \* state.graph.idle_subworkers (a Vec of handles)
    n_subworkers,     \* helper processes spawned so far
    panicked,         \* the worker process has aborted
    \* ---- worker: the handler future of each running task ----
    stage,            \* "none", "builtin", "get_subworker", "run_task", "dropped"
    held_sw,          \* the helper handle owned by the future (0: none)
    event,            \* what the next poll of the handler will find
    \* ---- worker: history ----
    h_net,            \* net change of free_cpus made by start(t) and its finalization
    h_alloc,          \* calls of alloc_resources for t
    h_free,           \* calls of free_resources for t
    h_first,          \* which was first: "handler" resolving or "cancel"
    h_outcome,        \* how t was finalized
    h_resp,           \* the helper's answer processed for t
    h_pushed,         \* h_pushed[t]: pushes of t's helper handle to the pool
    h_stops,          \* calls of stop on the instance of t
    h_sent,           \* cancellation signals sent for t
    in_unfinished,    \* input objects of t that are not Finished yet
    task_log,         \* per task, in the order of the code: the calls of
                      \* task_updated (with the state published) and of task_fn
    orphan,           \* per task, after start was called for it again: what
                      \* became of the future and the channel of the first call
    h_restarts        \* calls of start for a task that was in running_tasks

wvars == << task_type, task_resources, n_outputs, task_state, task_error,
            out_finished, out_set_data, free_cpus, registered, running_tasks,
            cancel_sender, cancel_rx, idle_subworkers, n_subworkers, panicked,
            stage, held_sw, event, h_net, h_alloc, h_free, h_first,
            h_outcome, h_resp, h_pushed, h_stops, h_sent, in_unfinished,
            task_log, orphan, h_restarts >>

\* ---- server: the graph of server::state::State and the upstream handles ----
VARIABLES
    s_objects,        \* graph.objects: the state of each id, or "absent"
    s_tasks,          \* graph.tasks: the state of each id, or "absent"
    s_task_worker,    \* the worker a task is assigned to (0: none)
    s_task_error,     \* the failure reason of a task
    ignored_objects,  \* ids of removed objects (tombstones)
    ignored_tasks,    \* ids of removed tasks (tombstones)
    s_workers,        \* graph.workers
    upstream,         \* workers whose WorkerUpstreamImpl exists
    rpc,              \* the call of the worker whose reply is on its way
    s_panicked,       \* the server process panicked
    s_lost_running    \* tasks that were Running when their worker was lost

svars == << s_objects, s_tasks, s_task_worker, s_task_error, ignored_objects,
            ignored_tasks, s_workers, upstream, rpc, s_panicked,
            s_lost_running >>

\* ---- common: one AsyncInitWrapper<T> and the callers that wait on it ----
VARIABLES
    ai_state,         \* self.state: "Initing" or "Ready"
    ai_value,         \* the value of State::Ready (0 while Initing)
    ai_senders,       \* the Vec of State::Initing: the waiters' senders
    w_state,          \* per caller: what became of its wait()
    w_signals,        \* per caller: messages its receiver was sent
    ai_panic,         \* the message of the panic that ended the process
    h_sets,           \* calls of set_value
    h_published,      \* the value of the first set_value
    h_got             \* the values get() returned

avars == << ai_state, ai_value, ai_senders, w_state, w_signals, ai_panic,
            h_sets, h_published, h_got >>

\* Start of the worker process (run_worker, src/src/bin.rs): what the
\* cpu-count query returned, the --cpus argument, the computed capacity and
\* how far the start has come.
VARIABLES
    c_detected,       \* value of num_cpus::get()
    c_arg,            \* --cpus: [present |-> is_present("CPUS"), value |-> i32]
    c_cpus,           \* the local cpus of run_worker
    c_stage           \* "args", "computed", "exited", "asserted", "panicked",
                      \* "state_created"

cvars == << c_detected, c_arg, c_cpus, c_stage >>

vars == << wvars, svars, avars, cvars >>


(***************************************************************************)
(* Worker: initial state.  The tasks were assigned by the server and are   *)
(* registered in the worker graph; nothing runs yet.                       *)
(***************************************************************************)
\* Bound on the input objects of a task; they are not Finished at first.
MaxInputs == 1

WorkerInit ==
    /\ task_type \in [Tasks -> ExecTypes]
    \* every task requests the same number of cpus
    /\ task_resources \in { [t \in Tasks |-> r] : r \in 1..NCpus }
    /\ n_outputs \in [Tasks -> 0..MaxOutputs]
    /\ task_state = [t \in Tasks |-> "Scheduled"]
    /\ task_error = [t \in Tasks |-> ""]
    /\ out_finished = [t \in Tasks |-> [i \in 1..MaxOutputs |-> FALSE]]
    /\ out_set_data = [t \in Tasks |-> [i \in 1..MaxOutputs |-> 0]]
    /\ free_cpus = NCpus
    /\ registered = Tasks
    /\ running_tasks = {}
    /\ cancel_sender = [t \in Tasks |-> "None"]
    /\ cancel_rx = [t \in Tasks |-> FALSE]
    /\ idle_subworkers = << >>
    /\ n_subworkers = 0
    /\ panicked = FALSE
    /\ stage = [t \in Tasks |-> "none"]
    /\ held_sw = [t \in Tasks |-> 0]
    /\ event = [t \in Tasks |-> NoEvent]
    /\ h_net = [t \in Tasks |-> 0]
    /\ h_alloc = [t \in Tasks |-> 0]
    /\ h_free = [t \in Tasks |-> 0]
    /\ h_first = [t \in Tasks |-> "none"]
    /\ h_outcome = [t \in Tasks |-> "none"]
    /\ h_stops = [t \in Tasks |-> 0]
    /\ h_sent = [t \in Tasks |-> 0]
    /\ in_unfinished = [t \in Tasks |-> MaxInputs]
    /\ task_log = [t \in Tasks |-> << >>]
    /\ orphan = [t \in Tasks |-> "none"]
    /\ h_restarts = [t \in Tasks |-> 0]
    /\ h_resp = [t \in Tasks |-> NoEvent]
    /\ h_pushed = [t \in Tasks |-> 0]


(***************************************************************************)
(* Worker: the collaborators of TaskInstance defined in worker/state.rs    *)
(* and worker/graph.                                                       *)
(***************************************************************************)
\* state.alloc_resources / state.free_resources on the cpu counter.
alloc_resources(free, r) == free - r
free_resources(free, r) == free + r

\* task.outputs.iter().all(|o| o.get().is_finished()), on the given flags.
all_finished(t, fin) == \A i \in 1..n_outputs[t] : fin[i]

\* output.get_mut().set_data(data) on the outputs in `ix`.
set_data_fin(t, ix) == [i \in 1..MaxOutputs |-> out_finished[t][i] \/ i \in ix]
set_data_cnt(t, ix) ==
    [i \in 1..MaxOutputs |-> out_set_data[t][i] + (IF i \in ix THEN 1 ELSE 0)]

\* What task_fn(state, task_ref) can return synchronously as Err.
DispatchErrors(t) ==
    LET f == task_fn(task_type[t]) IN
    IF f = "fail_unknown_type" THEN {ReasonUnknownType}
    ELSE IF f = "start_task_in_subworker" THEN {ReasonSpawn}
    ELSE {ReasonHandler}

(***************************************************************************)
(* TaskInstance::start, lines 37-43: allocate, mark Running, publish.      *)
(* The engine starts a task once; alloc_resources aborts the process when  *)
(* the request exceeds what is free.                                       *)
(***************************************************************************)
\* Variant of Available without the comparison: every request is granted.
Available_unchecked(free, r) == TRUE

\* alloc_resources grants a request that fits into what is free.
Available(free, r) == r <= free

\* Variant of CanStart in which the engine does not look at the inputs.
CanStart_ignores_inputs(t) ==
    /\ ~panicked
    /\ t \in registered
    /\ task_state[t] = "Scheduled"

\* The engine starts a task that is registered and Scheduled and whose
\* input objects are all Finished.
CanStart(t) ==
    /\ ~panicked
    /\ t \in registered
    /\ task_state[t] = "Scheduled"
    /\ in_unfinished[t] = 0

\* An input object of t becomes Finished (it was produced or fetched).
InputFinished(t) ==
    /\ ~panicked
    /\ in_unfinished[t] > 0
    /\ in_unfinished' = [in_unfinished EXCEPT ![t] = @ - 1]
    /\ UNCHANGED << task_type, task_resources, n_outputs, task_state,
                    task_error, out_finished, out_set_data, free_cpus,
                    registered, running_tasks, cancel_sender, cancel_rx,
                    idle_subworkers, n_subworkers, panicked, stage, held_sw,
                    event, h_net, h_alloc, h_free, h_first, h_outcome,
                    h_resp, h_pushed, h_stops, h_sent, task_log >>
    /\ UNCHANGED << orphan, h_restarts >>
    /\ UNCHANGED << svars, avars, cvars >>

StartNoResources(t) ==
    /\ CanStart(t)
    /\ ~Available(free_cpus, task_resources[t])
    /\ panicked' = TRUE
    /\ UNCHANGED << task_type, task_resources, n_outputs, task_state,
                    task_error, out_finished, out_set_data, free_cpus,
                    registered, running_tasks, cancel_sender, cancel_rx,
                    idle_subworkers, n_subworkers, stage, held_sw, event,
                    h_net, h_alloc, h_free, h_first, h_outcome, h_resp,
                    h_pushed >>
    /\ UNCHANGED task_log
    /\ UNCHANGED << h_stops, h_sent, in_unfinished >>
    /\ UNCHANGED << orphan, h_restarts >>
    /\ UNCHANGED << svars, avars, cvars >>

\* Variant of ReleaseOnDispatchError that forgets line 64.
ReleaseOnDispatchError_leak(free, r) == free

\* Line 64: the resources are given back when task_fn returns Err.
ReleaseOnDispatchError(free, r) == free_resources(free, r)

\* Variant of start_log that dispatches before it publishes.
start_log_handler_first == << "task_fn", "updated:Running" >>

\* Lines 41-59: task.state = Running, task_updated, then the choice of
\* task_fn and its call.
start_log == << "updated:Running", "task_fn" >>

\* task_updated publishes the state the task has when it is called.
Updated(st) == "updated:" \o st

\* Variant of dispatch_error_updates without the call of line 66.
dispatch_error_updates_silent == << >>

\* Lines 65-66: set_failed, then task_updated publishes the failure.
dispatch_error_updates == << Updated("Failed") >>

\* start, lines 37-69, when task_fn returns Err(e).
StartDispatchError(t) ==
    /\ CanStart(t)
    /\ Available(free_cpus, task_resources[t])
    /\ \E e \in DispatchErrors(t) :
         /\ task_state' = [task_state EXCEPT ![t] = "Failed"]
         /\ task_error' = [task_error EXCEPT ![t] = e]
    /\ registered' = registered \ {t}
    /\ free_cpus' = ReleaseOnDispatchError(
                         alloc_resources(free_cpus, task_resources[t]),
                         task_resources[t])
    /\ h_net' = [h_net EXCEPT ![t] = @ + free_cpus' - free_cpus]
    /\ h_alloc' = [h_alloc EXCEPT ![t] = @ + 1]
    /\ h_free' = [h_free EXCEPT ![t] = @ + 1]
    /\ h_outcome' = [h_outcome EXCEPT ![t] = "dispatch_err"]
    /\ task_log' = [task_log EXCEPT ![t] = start_log \o dispatch_error_updates]
    /\ UNCHANGED << task_type, task_resources, n_outputs, out_finished,
                    out_set_data, running_tasks, cancel_sender, cancel_rx,
                    idle_subworkers, n_subworkers, panicked, stage, held_sw,
                    event, h_first, h_resp, h_pushed >>
    /\ UNCHANGED << h_stops, h_sent, in_unfinished >>
    /\ UNCHANGED << orphan, h_restarts >>
    /\ UNCHANGED << svars, avars, cvars >>

\* The part of start shared by every successful dispatch: lines 37-43 and
\* lines 71-80 (the channel, the instance, the insert into running_tasks).
StartCommon(t) ==
    /\ CanStart(t)
    /\ Available(free_cpus, task_resources[t])
    /\ free_cpus' = alloc_resources(free_cpus, task_resources[t])
    /\ task_state' = [task_state EXCEPT ![t] = "Running"]
    /\ running_tasks' = running_tasks \cup {t}
    /\ cancel_sender' = [cancel_sender EXCEPT ![t] = "Some"]
    /\ h_net' = [h_net EXCEPT ![t] = @ + free_cpus' - free_cpus]
    /\ h_alloc' = [h_alloc EXCEPT ![t] = @ + 1]
    /\ task_log' = [task_log EXCEPT ![t] = start_log]
    /\ UNCHANGED << task_type, task_resources, n_outputs, task_error,
                    out_finished, out_set_data, registered, cancel_rx,
                    panicked, h_free, h_first, h_outcome, h_resp, h_pushed >>
    /\ UNCHANGED << h_stops, h_sent, in_unfinished >>
    /\ UNCHANGED << orphan, h_restarts >>
    /\ UNCHANGED << svars, avars, cvars >>

\* start with a built-in handler that returns Ok(future).
StartBuiltin(t) ==
    /\ task_fn(task_type[t]) \in BuiltinFns
    /\ StartCommon(t)
    /\ stage' = [stage EXCEPT ![t] = "builtin"]
    /\ UNCHANGED << idle_subworkers, n_subworkers, held_sw, event >>

\* start with start_task_in_subworker (line 130): get_subworker hands out an
\* idle helper when there is one (a future that is ready at once) and spawns
\* a new one otherwise (a future that is ready once the helper registered).
StartSubworker(t) ==
    /\ task_fn(task_type[t]) = "start_task_in_subworker"
    /\ StartCommon(t)
    /\ stage' = [stage EXCEPT ![t] = "get_subworker"]
    /\ IF idle_subworkers # << >>
       THEN /\ held_sw' = [held_sw EXCEPT ![t] = Head(idle_subworkers)]
            /\ idle_subworkers' = Tail(idle_subworkers)
            /\ event' = [event EXCEPT ![t] = [NoEvent EXCEPT !.kind = "sw_ready"]]
            /\ UNCHANGED n_subworkers
       ELSE /\ held_sw' = [held_sw EXCEPT ![t] = n_subworkers + 1]
            /\ n_subworkers' = n_subworkers + 1
            /\ UNCHANGED << idle_subworkers, event >>

(***************************************************************************)
(* TaskInstance::stop, lines 120-127.  It is a method of the instance, so  *)
(* it can be called only while the instance is in running_tasks.           *)
(***************************************************************************)
\* Bound on the calls of stop for one task.
MaxStops == 2

\* Variant of TakeSender that leaves the sender in the instance.
TakeSender_keeps_it(cs) == cs

\* Line 121: mem::replace(&mut self.cancel_sender, None).
TakeSender(cs) == "None"

stop(t) ==
    /\ ~panicked
    /\ t \in running_tasks
    /\ h_stops[t] < MaxStops
    /\ h_stops' = [h_stops EXCEPT ![t] = @ + 1]
    /\ cancel_sender' = [cancel_sender EXCEPT ![t] = TakeSender(@)]
    /\ IF cancel_sender[t] = "Some"
       THEN /\ cancel_rx' = [cancel_rx EXCEPT ![t] = TRUE]
            /\ h_sent' = [h_sent EXCEPT ![t] = @ + 1]
            /\ h_first' = [h_first EXCEPT ![t] = IF @ = "none" THEN "cancel" ELSE @]
       ELSE UNCHANGED << cancel_rx, h_sent, h_first >>
    /\ UNCHANGED << task_type, task_resources, n_outputs, task_state,
                    task_error, out_finished, out_set_data, free_cpus,
                    registered, running_tasks, idle_subworkers, n_subworkers,
                    panicked, stage, held_sw, event, h_net, h_alloc,
                    h_free, h_outcome, h_resp, h_pushed >>
    /\ UNCHANGED << in_unfinished, task_log >>
    /\ UNCHANGED << orphan, h_restarts >>
    /\ UNCHANGED << svars, avars, cvars >>

(***************************************************************************)
(* The environment of a handler future: what its next poll will find.      *)
(***************************************************************************)
\* Events that let the handler future resolve at its next poll.
Resolving(e) == e.kind \in {"done_ok", "done_err", "sw_failed",
                            "app_ok", "app_fail", "transport"}

Arrive(t, e) ==
    /\ ~panicked
    /\ t \in running_tasks
    /\ event[t] = NoEvent
    /\ event' = [event EXCEPT ![t] = e]
    /\ h_first' = [h_first EXCEPT ![t] =
                       IF @ = "none" /\ Resolving(e) THEN "handler" ELSE @]
    /\ UNCHANGED << task_type, task_resources, n_outputs, task_state,
                    task_error, out_finished, out_set_data, free_cpus,
                    registered, running_tasks, cancel_sender, cancel_rx,
                    idle_subworkers, n_subworkers, panicked, stage, held_sw,
                    h_net, h_alloc, h_free, h_outcome, h_resp, h_pushed,
                    h_stops, h_sent, in_unfinished, task_log >>
    /\ UNCHANGED << orphan, h_restarts >>
    /\ UNCHANGED << svars, avars, cvars >>

\* A built-in handler (tasks::run, tasks::basic) produces output i, or ends.
BuiltinEvent(t) ==
    /\ stage[t] = "builtin"
    /\ \E e \in { [NoEvent EXCEPT !.kind = "produce", !.ndata = i] :
                      i \in { j \in 1..n_outputs[t] : ~out_finished[t][j] } }
                \cup { [NoEvent EXCEPT !.kind = "done_ok"],
                       [NoEvent EXCEPT !.kind = "done_err"] } :
         Arrive(t, e)

\* The spawned helper process registered, or could not be started.
SubworkerEvent(t) ==
    /\ stage[t] = "get_subworker"
    /\ \E k \in {"sw_ready", "sw_failed"} :
         Arrive(t, [NoEvent EXCEPT !.kind = k])

\* The helper answered the run-task request, or the connection was lost.
HelperResponse(t) ==
    /\ stage[t] = "run_task"
    /\ \E r \in Responses : Arrive(t, r)


(***************************************************************************)
(* start_task_in_subworker, lines 173-198: the closure that receives the   *)
(* answer r of the helper.  The result names the outputs on which set_data *)
(* is called, whether line 196 (the push to idle_subworkers) is reached,   *)
(* and the Result the handler future resolves to.  `?` and bail! leave the *)
(* closure at once; the Err(err) arm of the match does not.                *)
(***************************************************************************)
OnResponse(t, r) ==
    IF r.kind = "transport"
    THEN [ok |-> FALSE, err |-> ReasonTransport, sets |-> {}, push |-> TRUE]
    ELSE IF r.kind = "app_fail"
    THEN [ok |-> FALSE, err |-> ReasonApp, sets |-> {}, push |-> FALSE]
    ELSE LET n == Min(r.ndata, n_outputs[t]) IN   \* iter().zip(&task.outputs)
         IF r.bad \in 1..n
         THEN [ok |-> FALSE, err |-> ReasonDecode,
               sets |-> 1..(r.bad - 1), push |-> FALSE]
         ELSE [ok |-> TRUE, err |-> "", sets |-> 1..n, push |-> TRUE]

(***************************************************************************)
(* One poll of the handler future (the first side of the select).          *)
(*   resolved: the future is ready, with Ok (ok) or Err(err);              *)
(*   sets: outputs that get their data; push: the helper goes to the pool; *)
(*   next: the stage of a future that is still pending.                    *)
(***************************************************************************)
HandlerPoll(t) ==
    LET e == event[t]
        pending(st, ix) == [resolved |-> FALSE, ok |-> FALSE, err |-> "",
                            sets |-> ix, push |-> FALSE, next |-> st]
        ready(ok, err) == [resolved |-> TRUE, ok |-> ok, err |-> err,
                           sets |-> {}, push |-> FALSE, next |-> "dropped"]
    IN  CASE e.kind = "none"      -> pending(stage[t], {})
          [] e.kind = "produce"   -> pending("builtin", {e.ndata})
          [] e.kind = "done_ok"   -> ready(TRUE, "")
          [] e.kind = "done_err"  -> ready(FALSE, ReasonHandler)
          [] e.kind = "sw_ready"  -> pending("run_task", {})  \* lines 132-171
          [] e.kind = "sw_failed" -> ready(FALSE, ReasonSpawn)
          [] OTHER ->
               LET a == OnResponse(t, e) IN
               [resolved |-> TRUE, ok |-> a.ok, err |-> a.err,
                sets |-> a.sets, push |-> a.push, next |-> "dropped"]

(***************************************************************************)
(* The result r of future.select(receiver), lines 81-85: the handler is    *)
(* polled first, the cancellation receiver only when it is still pending.  *)
(***************************************************************************)
\* Variant of Select in which a handler that resolved with Err loses to the
\* cancellation signal.
Select_cancel_over_error(hp, cancelled) ==
    IF hp.resolved /\ hp.ok THEN "handler_ok"
    ELSE IF cancelled THEN "cancel"
    ELSE IF hp.resolved THEN "handler_err"
    ELSE "pending"

\* Variant of Select with the two sides swapped: receiver.select(future).
Select_receiver_first(hp, cancelled) ==
    IF cancelled THEN "cancel"
    ELSE IF hp.resolved THEN (IF hp.ok THEN "handler_ok" ELSE "handler_err")
    ELSE "pending"

Select(hp, cancelled) ==
    IF hp.resolved THEN (IF hp.ok THEN "handler_ok" ELSE "handler_err")
    ELSE IF cancelled THEN "cancel"
    ELSE "pending"

\* Variant of helper_returned in which the future of a cancelled task gives
\* its helper back when it is dropped.
helper_returned_on_drop(hp, r) ==
    hp.push \/ (r = "cancel" /\ hp.next = "run_task")

\* Line 196: the handle is pushed to idle_subworkers by the closure that
\* receives the answer, and nowhere else; a future that select drops while
\* it is pending takes its handle with it.
helper_returned(hp, r) == hp.push

(***************************************************************************)
(* The state and the reason chosen by the match of lines 93-115.           *)
(***************************************************************************)
\* Variant of FinalState without the all_finished check of lines 95-99.
FinalState_trusts_handler(r, allfin) ==
    IF r = "handler_ok" THEN "Finished" ELSE "Failed"

\* Variant of FinalState that sets Finished on produced outputs alone, also
\* in the Ok((false, _)) arm.
FinalState_ignores_result(r, allfin) ==
    IF allfin /\ r # "handler_err" THEN "Finished" ELSE "Failed"

\* Variant of FinalState whose Ok((false, _)) arm hands the task back to
\* the scheduler.
FinalState_reschedules_cancelled(r, allfin) ==
    IF r = "handler_ok" /\ allfin THEN "Finished"
    ELSE IF r = "cancel" THEN "Scheduled"
    ELSE "Failed"

\* Lines 93-115: the state the match leaves the task in.
FinalState(r, allfin) ==
    IF r = "handler_ok" /\ allfin THEN "Finished" ELSE "Failed"

\* Variant of FinalReason whose Err((e, _)) arm records no reason.
FinalReason_drops_error(r, allfin, err) ==
    CASE r = "handler_ok" -> (IF allfin THEN "" ELSE ReasonNotProduced)
      [] r = "cancel"     -> ReasonTerminated
      [] OTHER            -> ""

\* Lines 97-99, 110 and 113: the reason given to set_failed.
FinalReason(r, allfin, err) ==
    CASE r = "handler_ok" -> (IF allfin THEN "" ELSE ReasonNotProduced)
      [] r = "cancel"     -> ReasonTerminated
      [] OTHER            -> err

\* Variant of running_after_finalize that leaves the instance in the map.
running_after_finalize_keeps(rt, t) == rt

\* Line 88: state.graph.running_tasks.remove(&task_id).
running_after_finalize(rt, t) == rt \ {t}

(***************************************************************************)
(* One poll of the future spawned by start (lines 81-117): the handler     *)
(* makes the progress its event allows, and when the select resolves the   *)
(* `then` closure finalizes the task in the same poll.                     *)
(***************************************************************************)
Poll(t) ==
    /\ ~panicked
    /\ t \in running_tasks
    /\ event[t] # NoEvent \/ cancel_rx[t]
    /\ LET hp  == HandlerPoll(t)
           r   == Select(hp, cancel_rx[t])
           fin == set_data_fin(t, hp.sets)
           af  == all_finished(t, fin)
       IN
       /\ out_finished' = [out_finished EXCEPT ![t] = fin]
       /\ out_set_data' = [out_set_data EXCEPT ![t] = set_data_cnt(t, hp.sets)]
       /\ idle_subworkers' = IF helper_returned(hp, r)
                             THEN Append(idle_subworkers, held_sw[t])
                             ELSE idle_subworkers
       /\ h_pushed' = [h_pushed EXCEPT ![t] =
                           @ + (IF helper_returned(hp, r) THEN 1 ELSE 0)]
       /\ h_resp' = [h_resp EXCEPT ![t] =
                         IF stage[t] = "run_task" /\ hp.resolved THEN event[t] ELSE @]
       /\ event' = [event EXCEPT ![t] = NoEvent]
       /\ IF r = "pending"
          THEN /\ stage' = [stage EXCEPT ![t] = hp.next]
               /\ UNCHANGED << task_state, task_error, free_cpus, registered,
                               running_tasks, h_free, h_outcome, h_net,
                               task_log >>
          ELSE /\ stage' = [stage EXCEPT ![t] = "dropped"]
               /\ running_tasks' = running_after_finalize(running_tasks, t)
               \* line 89: task_updated is called before the match of
               \* lines 93-115 sets the final state
               /\ task_log' = [task_log EXCEPT ![t] =
                                   Append(@, Updated(task_state[t]))]
               /\ registered' = registered \ {t}
               /\ free_cpus' = free_resources(free_cpus, task_resources[t])
               /\ h_free' = [h_free EXCEPT ![t] = @ + 1]
               /\ h_net' = [h_net EXCEPT ![t] = @ + free_cpus' - free_cpus]
               /\ task_state' = [task_state EXCEPT ![t] = FinalState(r, af)]
               /\ task_error' = [task_error EXCEPT ![t] = FinalReason(r, af, hp.err)]
               /\ h_outcome' = [h_outcome EXCEPT ![t] = r]
    /\ UNCHANGED << task_type, task_resources, n_outputs, cancel_sender,
                    cancel_rx, n_subworkers, panicked, held_sw, h_alloc,
                    h_first >>
    /\ UNCHANGED << h_stops, h_sent, in_unfinished >>
    /\ UNCHANGED << orphan, h_restarts >>
    /\ UNCHANGED << svars, avars, cvars >>

(***************************************************************************)
(* TaskInstance::start called for a task that has an entry in              *)
(* running_tasks.  start has no test for it: lines 37-80 run as they do    *)
(* for a new task.                                                         *)
(***************************************************************************)
\* Bound on such calls for one task.
MaxRestarts == 1

\* Line 79: insert replaces the entry; the instance it held is dropped, and
\* with it the sender of the first call unless stop had sent on it.
orphan_after_insert(cs) == IF cs = "Some" THEN "sender_dropped" ELSE "signalled"

StartAgain(t) ==
    /\ ~panicked
    /\ t \in running_tasks
    /\ orphan[t] = "none"
    /\ h_restarts[t] < MaxRestarts
    /\ h_restarts' = [h_restarts EXCEPT ![t] = @ + 1]
    /\ IF ~Available(free_cpus, task_resources[t])
       THEN \* line 40: alloc_resources ends the process
            /\ panicked' = TRUE
            /\ UNCHANGED << task_state, task_error, free_cpus, registered,
                            cancel_sender, cancel_rx, stage, event, h_net,
                            h_alloc, h_free, task_log, orphan >>
       ELSE /\ UNCHANGED panicked
            /\ h_alloc' = [h_alloc EXCEPT ![t] = @ + 1]
            /\ \/ \* lines 61-68: task_fn returns Err(e)
                  /\ \E e \in DispatchErrors(t) :
                        task_error' = [task_error EXCEPT ![t] = e]
                  /\ task_state' = [task_state EXCEPT ![t] = "Failed"]
                  /\ registered' = registered \ {t}
                  /\ free_cpus' = ReleaseOnDispatchError(
                                      alloc_resources(free_cpus, task_resources[t]),
                                      task_resources[t])
                  /\ h_net' = [h_net EXCEPT ![t] = @ + free_cpus' - free_cpus]
                  /\ h_free' = [h_free EXCEPT ![t] = @ + 1]
                  /\ task_log' = [task_log EXCEPT ![t] =
                                     @ \o start_log \o dispatch_error_updates]
                  /\ UNCHANGED << cancel_sender, cancel_rx, stage, event,
                                  orphan >>
               \/ \* lines 71-117: a second future runs the handler
                  /\ task_fn(task_type[t]) \in BuiltinFns
                  /\ free_cpus' = alloc_resources(free_cpus, task_resources[t])
                  /\ h_net' = [h_net EXCEPT ![t] = @ + free_cpus' - free_cpus]
                  /\ task_state' = [task_state EXCEPT ![t] = "Running"]
                  /\ task_log' = [task_log EXCEPT ![t] = @ \o start_log]
                  /\ orphan' = [orphan EXCEPT ![t] =
                                   orphan_after_insert(cancel_sender[t])]
                  /\ cancel_sender' = [cancel_sender EXCEPT ![t] = "Some"]
                  /\ cancel_rx' = [cancel_rx EXCEPT ![t] = FALSE]
                  /\ stage' = [stage EXCEPT ![t] = "builtin"]
                  /\ event' = [event EXCEPT ![t] = NoEvent]
                  /\ UNCHANGED << task_error, registered, h_free >>
    /\ UNCHANGED << task_type, task_resources, n_outputs, out_finished,
                    out_set_data, running_tasks, idle_subworkers,
                    n_subworkers, held_sw, h_first, h_outcome, h_resp,
                    h_pushed, h_stops, h_sent, in_unfinished >>
    /\ UNCHANGED << svars, avars, cvars >>

\* The result of the select of a future whose instance was replaced, lines
\* 81-85: a handler that resolved wins; with a pending handler the receiver
\* is looked at, and a receiver whose sender was dropped takes the
\* unreachable!() of line 85.
OrphanSelect(old, orph) ==
    IF old # "pending" THEN old
    ELSE IF orph = "signalled" THEN "cancel"
    ELSE "unreachable"

\* A poll of a future that start left without its instance: the future of
\* the first call, or ("detached") the future of the second call after the
\* closure of the first removed the entry of the task.
OrphanPoll(t) ==
    /\ ~panicked
    /\ orphan[t] # "none"
    /\ \E old \in {"handler_ok", "handler_err", "pending"} :
         LET r  == OrphanSelect(old, orphan[t])
             af == all_finished(t, out_finished[t])
         IN
         IF orphan[t] = "detached" \/ r = "unreachable" \/ t \notin running_tasks
         THEN \* unreachable!() at line 85, or remove(..).unwrap() at line 88
              /\ panicked' = TRUE
              /\ UNCHANGED << task_state, task_error, free_cpus, registered,
                              running_tasks, h_net, h_free, h_outcome,
                              task_log, orphan >>
         ELSE \* lines 87-116 with the entry of the second call
              /\ running_tasks' = running_after_finalize(running_tasks, t)
              /\ task_log' = [task_log EXCEPT ![t] =
                                 Append(@, Updated(task_state[t]))]
              /\ registered' = registered \ {t}
              /\ free_cpus' = free_resources(free_cpus, task_resources[t])
              /\ h_free' = [h_free EXCEPT ![t] = @ + 1]
              /\ h_net' = [h_net EXCEPT ![t] = @ + free_cpus' - free_cpus]
              /\ task_state' = [task_state EXCEPT ![t] = FinalState(r, af)]
              /\ task_error' = [task_error EXCEPT ![t] =
                                   FinalReason(r, af, ReasonHandler)]
              /\ h_outcome' = [h_outcome EXCEPT ![t] = r]
              /\ orphan' = [orphan EXCEPT ![t] = "detached"]
              /\ UNCHANGED panicked
    /\ UNCHANGED << task_type, task_resources, n_outputs, out_finished,
                    out_set_data, cancel_sender, cancel_rx, idle_subworkers,
                    n_subworkers, stage, held_sw, event, h_alloc, h_first,
                    h_resp, h_pushed, h_stops, h_sent, in_unfinished,
                    h_restarts >>
    /\ UNCHANGED << svars, avars, cvars >>

(***************************************************************************)
(* Server: the graph of server::state::State and the upstream handles.     *)
(***************************************************************************)
NObjIds == 2       \* data object ids
NTaskIds == 2      \* task ids
NWorkers == 2      \* workers connected to the server
MaxDeltas == 2     \* deltas in one update_states batch, at most

ObjIds == 1..NObjIds
TaskIds == 1..NTaskIds
Workers == 1..NWorkers

ObjDeltas == { [id |-> i, state |-> "Finished"] : i \in ObjIds }
TaskDeltas == { [id |-> i, state |-> st] :
                    i \in TaskIds, st \in {"Running", "Finished"} }

SeqsUpTo(S, n) == UNION { [1..k -> S] : k \in 0..n }

\* The update of an update_states call: its object and its task deltas.
Batches ==
    { b \in { [objs |-> o, tasks |-> t] :
                  o \in SeqsUpTo(ObjDeltas, MaxDeltas),
                  t \in SeqsUpTo(TaskDeltas, MaxDeltas) } :
          Len(b.objs) + Len(b.tasks) <= MaxDeltas }

NoCall == [worker |-> 0]

ServerInit ==
    /\ s_objects = [o \in ObjIds |-> "absent"]
    /\ s_tasks = [t \in TaskIds |-> "absent"]
    /\ s_task_worker = [t \in TaskIds |-> 0]
    /\ s_task_error = [t \in TaskIds |-> ""]
    /\ ignored_objects = {}
    /\ ignored_tasks = {}
    /\ s_workers = Workers
    /\ upstream = Workers
    /\ rpc = NoCall
    /\ s_panicked = FALSE
    /\ s_lost_running = {}

(***************************************************************************)
(* Server: the operations of server/state.rs that the RPC layer calls.     *)
(***************************************************************************)
is_object_ignored(id) == id \in ignored_objects
is_task_ignored(id) == id \in ignored_tasks

\* object_by_id / task_by_id: Ok(reference), or Err when the id is not found.
object_by_id(id) == IF s_objects[id] # "absent" THEN "Ok" ELSE "Err"
task_by_id(id) == IF s_tasks[id] # "absent" THEN "Ok" ELSE "Err"

\* updates_from_worker: the object updates are applied, then the task updates.
RECURSIVE apply_updates(_, _)
apply_updates(f, ups) ==
    IF ups = << >> THEN f
    ELSE apply_updates([f EXCEPT ![Head(ups).id] = Head(ups).state], Tail(ups))

\* The updates of one kind, in the order of the vector that carries them.
Tagged(kind, ups) ==
    [i \in 1..Len(ups) |-> [kind |-> kind, id |-> ups[i].id,
                            state |-> ups[i].state]]

\* Variant of updates_from_worker_order that takes the task updates first.
updates_from_worker_order_tasks_first(obj_updates, task_updates) ==
    Tagged("task", task_updates) \o Tagged("object", obj_updates)

\* updates_from_worker(worker, obj_updates, task_updates): the order in which
\* the updates of a batch are applied to the graph.
updates_from_worker_order(obj_updates, task_updates) ==
    Tagged("object", obj_updates) \o Tagged("task", task_updates)

ReasonWorkerLost == "worker lost"
tasks_of(w) == { t \in TaskIds : s_tasks[t] # "absent" /\ s_task_worker[t] = w }

add_object(o) ==
    /\ ~s_panicked
    /\ rpc = NoCall
    /\ s_objects[o] = "absent"
    /\ o \notin ignored_objects
    /\ s_objects' = [s_objects EXCEPT ![o] = "Unfinished"]
    /\ UNCHANGED << s_tasks, s_task_worker, s_task_error, ignored_objects,
                    ignored_tasks, s_workers, upstream, rpc >>
    /\ UNCHANGED << s_panicked, s_lost_running >>
    /\ UNCHANGED << wvars, avars, cvars >>

remove_object(o) ==
    /\ ~s_panicked
    /\ rpc = NoCall
    /\ s_objects[o] # "absent"
    /\ s_objects' = [s_objects EXCEPT ![o] = "absent"]
    /\ ignored_objects' = ignored_objects \cup {o}
    /\ UNCHANGED << s_tasks, s_task_worker, s_task_error, ignored_tasks,
                    s_workers, upstream, rpc >>
    /\ UNCHANGED << s_panicked, s_lost_running >>
    /\ UNCHANGED << wvars, avars, cvars >>

add_task(t) ==
    /\ ~s_panicked
    /\ rpc = NoCall
    /\ s_tasks[t] = "absent"
    /\ t \notin ignored_tasks
    /\ \E w \in s_workers :
         s_task_worker' = [s_task_worker EXCEPT ![t] = w]
    /\ s_tasks' = [s_tasks EXCEPT ![t] = "Assigned"]
    /\ UNCHANGED << s_objects, s_task_error, ignored_objects, ignored_tasks,
                    s_workers, upstream, rpc >>
    /\ UNCHANGED << s_panicked, s_lost_running >>
    /\ UNCHANGED << wvars, avars, cvars >>

remove_task(t) ==
    /\ ~s_panicked
    /\ rpc = NoCall
    /\ s_tasks[t] # "absent"
    /\ s_tasks' = [s_tasks EXCEPT ![t] = "absent"]
    /\ s_task_worker' = [s_task_worker EXCEPT ![t] = 0]
    /\ s_task_error' = [s_task_error EXCEPT ![t] = ""]
    /\ ignored_tasks' = ignored_tasks \cup {t}
    /\ UNCHANGED << s_objects, ignored_objects, s_workers, upstream, rpc >>
    /\ s_lost_running' = s_lost_running \ {t}
    /\ UNCHANGED s_panicked
    /\ UNCHANGED << wvars, avars, cvars >>

(***************************************************************************)
(* WorkerUpstreamImpl::update_states, lines 48-88.                         *)
(***************************************************************************)
\* Variant of resolve_objects without the is_object_ignored test.
RECURSIVE resolve_objects_no_skip(_, _)
resolve_objects_no_skip(ds, acc) ==
    IF ds = << >> THEN [ok |-> TRUE, ups |-> acc]
    ELSE IF object_by_id(Head(ds).id) = "Err" THEN [ok |-> FALSE, ups |-> acc]
    ELSE resolve_objects_no_skip(Tail(ds), Append(acc, Head(ds)))

\* Lines 63-72: an ignored id is skipped, an id that is not found returns
\* the error (pry!), every other delta joins obj_updates.  ups is the
\* vector as it is when the loop ends or returns.
RECURSIVE resolve_objects(_, _)
resolve_objects(ds, acc) ==
    IF ds = << >> THEN [ok |-> TRUE, ups |-> acc]
    ELSE IF is_object_ignored(Head(ds).id) THEN resolve_objects(Tail(ds), acc)
    ELSE IF object_by_id(Head(ds).id) = "Err" THEN [ok |-> FALSE, ups |-> acc]
    ELSE resolve_objects(Tail(ds), Append(acc, Head(ds)))

\* Variant of resolve_tasks that skips an id that is not found, too.
RECURSIVE resolve_tasks_drop_unknown(_, _)
resolve_tasks_drop_unknown(ds, acc) ==
    IF ds = << >> THEN [ok |-> TRUE, ups |-> acc]
    ELSE IF is_task_ignored(Head(ds).id) \/ task_by_id(Head(ds).id) = "Err"
    THEN resolve_tasks_drop_unknown(Tail(ds), acc)
    ELSE resolve_tasks_drop_unknown(Tail(ds), Append(acc, Head(ds)))

\* Lines 74-83: the same for the task deltas.
RECURSIVE resolve_tasks(_, _)
resolve_tasks(ds, acc) ==
    IF ds = << >> THEN [ok |-> TRUE, ups |-> acc]
    ELSE IF is_task_ignored(Head(ds).id) THEN resolve_tasks(Tail(ds), acc)
    ELSE IF task_by_id(Head(ds).id) = "Err" THEN [ok |-> FALSE, ups |-> acc]
    ELSE resolve_tasks(Tail(ds), Append(acc, Head(ds)))

\* Variant of updates_applied in which the updates gathered before the
\* error are handed to updates_from_worker.
updates_applied_before_error(ok, f, ups) == apply_updates(f, ups)

\* Line 86 is reached only when no pry! of lines 53-83 has returned; the
\* vectors of a call that returned an error are dropped.
updates_applied(ok, f, ups) == IF ok THEN apply_updates(f, ups) ELSE f

\* update_states is a method of the handle: it runs only while the handle
\* of worker w exists.
CanCall(w) == w \in upstream

update_states(w, b) ==
    /\ ~s_panicked
    /\ rpc = NoCall
    /\ CanCall(w)
    /\ LET ro == resolve_objects(b.objs, << >>)
           rt == resolve_tasks(b.tasks, << >>)
           ok == ro.ok /\ rt.ok
       IN
       /\ s_objects' = updates_applied(ok, s_objects, ro.ups)
       /\ s_tasks' = updates_applied(ok, s_tasks, rt.ups)
       /\ rpc' = [worker |-> w, method |-> "update_states", batch |-> b,
                  result |-> IF ok THEN "ok" ELSE "err",
                  pre_objects |-> s_objects, pre_tasks |-> s_tasks,
                  applied |-> IF ok
                              THEN updates_from_worker_order(ro.ups, rt.ups)
                              ELSE << >>,
                  released |-> Workers \ upstream]
    /\ UNCHANGED << s_task_worker, s_task_error, ignored_objects,
                    ignored_tasks, s_workers, upstream >>
    /\ UNCHANGED << s_panicked, s_lost_running >>
    /\ UNCHANGED << wvars, avars, cvars >>

(***************************************************************************)
(* WorkerUpstreamImpl::get_client_session, lines 90-98.                    *)
(***************************************************************************)
\* Variant of get_client_session_result that answers Promise::ok(()).
get_client_session_result_ok == "ok"

\* Lines 95-97: Promise::err(::capnp::Error::unimplemented(..)).
get_client_session_result == "unimplemented"

get_client_session(w) ==
    /\ ~s_panicked
    /\ rpc = NoCall
    /\ CanCall(w)
    /\ rpc' = [worker |-> w, method |-> "get_client_session",
               result |-> get_client_session_result,
               pre |-> << s_objects, s_tasks, s_task_worker, s_task_error,
                          ignored_objects, ignored_tasks, s_workers,
                          upstream >>]
    /\ UNCHANGED << s_objects, s_tasks, s_task_worker, s_task_error,
                    ignored_objects, ignored_tasks, s_workers, upstream >>
    /\ UNCHANGED << s_panicked, s_lost_running >>
    /\ UNCHANGED << wvars, avars, cvars >>

\* The reply of a call reaches the worker.  rpc keeps the call (its
\* batch, its result and the graph it found) until then; the other
\* operations of the server are taken between two calls.
ReplyDelivered ==
    /\ ~s_panicked
    /\ rpc # NoCall
    /\ rpc' = NoCall
    /\ UNCHANGED << s_objects, s_tasks, s_task_worker, s_task_error,
                    ignored_objects, ignored_tasks, s_workers, upstream >>
    /\ UNCHANGED << s_panicked, s_lost_running >>
    /\ UNCHANGED << wvars, avars, cvars >>

(***************************************************************************)
(* Drop for WorkerUpstreamImpl, lines 25-32.                               *)
(***************************************************************************)
\* remove_worker (server/state.rs): the tasks of the worker fail, the worker
\* leaves the registry.
remove_worker_tasks(w) ==
    [t \in TaskIds |-> IF t \in tasks_of(w) THEN "Failed" ELSE s_tasks[t]]
remove_worker_registry(w) == s_workers \ {w}
remove_worker_result(w) == IF w \in s_workers THEN "Ok" ELSE "Err"

\* Variant of registry_after_drop: a drop that does not call remove_worker.
registry_after_drop_untouched(w) == s_workers

\* Lines 28-30: the registry after drop, which calls s.remove_worker.
registry_after_drop(w) == remove_worker_registry(w)

\* Variant of tasks_after_drop: a drop that leaves the tasks of the worker.
tasks_after_drop_untouched(w) == s_tasks

\* Lines 28-30: the tasks after drop, which calls s.remove_worker.
tasks_after_drop(w) == remove_worker_tasks(w)

\* Line 30: .expect("dropping worker upstream") panics when remove_worker
\* returns an error.
drop(w) ==
    /\ ~s_panicked
    /\ rpc = NoCall
    /\ w \in upstream
    /\ upstream' = upstream \ {w}
    /\ s_panicked' = (remove_worker_result(w) = "Err")
    /\ s_lost_running' = s_lost_running \cup
                            { t \in tasks_of(w) : s_tasks[t] = "Running" }
    /\ s_tasks' = tasks_after_drop(w)
    /\ s_task_error' = [t \in TaskIds |->
                           IF t \in tasks_of(w) THEN ReasonWorkerLost
                           ELSE s_task_error[t]]
    /\ s_workers' = registry_after_drop(w)
    /\ UNCHANGED << s_objects, s_task_worker, ignored_objects, ignored_tasks,
                    rpc >>
    /\ UNCHANGED << wvars, avars, cvars >>

(***************************************************************************)
(* common/asycinit.rs: AsyncInitWrapper<T>.                                *)
(***************************************************************************)
NWaiters == 3
NValues == 2
MaxSets == 2

Waiters == 1..NWaiters
Values == 1..NValues

PanicNotReady == "Element is not ready"
PanicAlreadyFinished == "Element is already finished"
PanicSend == "called Result::unwrap() on an Err value"

\* Lines 21-23: new() starts in Initing with no sender.
AsyncInit ==
    /\ ai_state = "Initing"
    /\ ai_value = 0
    /\ ai_senders = << >>
    /\ w_state = [i \in Waiters |-> "idle"]
    /\ w_signals = [i \in Waiters |-> 0]
    /\ ai_panic = ""
    /\ h_sets = 0
    /\ h_published = 0
    /\ h_got = {}

\* Lines 25-30.
is_ready == ai_state = "Ready"

\* Lines 50-60: wait() returns a future that is ready at once when the value
\* is there; otherwise it makes a channel, pushes the sender and returns the
\* receiver.
wait(i) ==
    /\ ai_panic = ""
    /\ w_state[i] = "idle"
    /\ IF is_ready
       THEN /\ w_state' = [w_state EXCEPT ![i] = "ready"]
            /\ UNCHANGED ai_senders
       ELSE /\ w_state' = [w_state EXCEPT ![i] = "pending"]
            /\ ai_senders' = Append(ai_senders, i)
    /\ UNCHANGED << ai_state, ai_value, w_signals, ai_panic, h_sets,
                    h_published, h_got >>
    /\ UNCHANGED << wvars, svars, cvars >>

\* A caller drops the future wait() gave it, and with it the receiver,
\* before the value is there.
drop_future(i) ==
    /\ ai_panic = ""
    /\ w_state[i] = "pending"
    /\ w_state' = [w_state EXCEPT ![i] = "dropped"]
    /\ UNCHANGED << ai_state, ai_value, ai_senders, w_signals, ai_panic,
                    h_sets, h_published, h_got >>
    /\ UNCHANGED << wvars, svars, cvars >>

\* Variant of notify that ignores the result of send: a sender whose
\* receiver was dropped is passed over.
RECURSIVE notify_skips_dropped(_, _, _)
notify_skips_dropped(senders, ws, sig) ==
    IF senders = << >> THEN [ws |-> ws, sig |-> sig, panic |-> ""]
    ELSE LET i == Head(senders) IN
         IF ws[i] = "dropped"
         THEN notify_skips_dropped(Tail(senders), ws, sig)
         ELSE notify_skips_dropped(Tail(senders),
                                   [ws EXCEPT ![i] = "released"],
                                   [sig EXCEPT ![i] = @ + 1])

\* Lines 42-44: for sender in senders { sender.send(()).unwrap(); }.  A send
\* to a receiver that was dropped returns Err, and unwrap panics there: the
\* senders after it are not used.
RECURSIVE notify(_, _, _)
notify(senders, ws, sig) ==
    IF senders = << >> THEN [ws |-> ws, sig |-> sig, panic |-> ""]
    ELSE LET i == Head(senders) IN
         IF ws[i] = "dropped" THEN [ws |-> ws, sig |-> sig, panic |-> PanicSend]
         ELSE notify(Tail(senders),
                     [ws EXCEPT ![i] = "released"],
                     [sig EXCEPT ![i] = @ + 1])

\* Variant of already_finished: a second set_value is taken like the first.
already_finished_ignored(old) == FALSE

\* Line 46: the match finds State::Ready(_) in the state it replaced.
already_finished(old) == old = "Ready"

\* Lines 39-48: mem::replace installs Ready(value) first; the match on the
\* state that was replaced notifies the waiters or panics.
set_value(v) ==
    /\ ai_panic = ""
    /\ h_sets < MaxSets
    /\ h_sets' = h_sets + 1
    /\ h_published' = IF h_sets = 0 THEN v ELSE h_published
    /\ ai_state' = "Ready"
    /\ ai_value' = v
    /\ ai_senders' = << >>
    /\ IF already_finished(ai_state)
       THEN /\ ai_panic' = PanicAlreadyFinished
            /\ UNCHANGED << w_state, w_signals >>
       ELSE LET n == notify(ai_senders, w_state, w_signals) IN
            /\ w_state' = n.ws
            /\ w_signals' = n.sig
            /\ ai_panic' = n.panic
    /\ UNCHANGED h_got
    /\ UNCHANGED << wvars, svars, cvars >>

\* Lines 32-37: get() returns the value, or panics while Initing.
get ==
    /\ ai_panic = ""
    /\ IF is_ready
       THEN /\ h_got' = h_got \cup {ai_value}
            /\ UNCHANGED ai_panic
       ELSE /\ ai_panic' = PanicNotReady
            /\ UNCHANGED h_got
    /\ UNCHANGED << ai_state, ai_value, ai_senders, w_state, w_signals,
                    h_sets, h_published >>
    /\ UNCHANGED << wvars, svars, cvars >>

(***************************************************************************)
(* run_worker: the cpu capacity of the worker, src/src/bin.rs lines        *)
(* 189-214, and the creation of the worker state, lines 252-258.           *)
(***************************************************************************)
MaxDetected == 6     \* num_cpus::get() returns 0..MaxDetected
MaxCpusArg == 6      \* --cpus takes -MaxCpusArg..MaxCpusArg

NoCpusArg == [present |-> FALSE, value |-> 0]
CpusArgs ==
    {NoCpusArg} \cup { [present |-> TRUE, value |-> v] :
                          v \in (0 - MaxCpusArg)..MaxCpusArg }

\* The process before run_worker reads its arguments.
CpuInit ==
    /\ c_detected \in 0..MaxDetected
    /\ c_arg \in CpusArgs
    /\ c_cpus = 0
    /\ c_stage = "args"

\* A worker that has started with NCpus detected cpus and no --cpus.
CpuIdle ==
    /\ c_detected = NCpus
    /\ c_arg = NoCpusArg
    /\ c_cpus = NCpus
    /\ c_stage = "state_created"

\* detect_cpus, lines 189-197: exit(1) when fewer than one cpu is reported.
detect_cpus(n) == [exit |-> n < 1, cpus |-> n]

\* Lines 199-213: the value of the local cpus, or exit(1).
compute_cpus(n, arg) ==
    IF arg.present
    THEN IF arg.value < 0
         THEN IF detect_cpus(n).exit \/ detect_cpus(n).cpus <= 0 - arg.value
              THEN [exit |-> TRUE, cpus |-> 0]
              ELSE [exit |-> FALSE, cpus |-> detect_cpus(n).cpus + arg.value]
         ELSE [exit |-> FALSE, cpus |-> arg.value]
    ELSE detect_cpus(n)

\* Line 214: assert!(cpus >= 0).
assert_cpus(cpus) == cpus >= 0

ComputeCpus ==
    /\ c_stage = "args"
    /\ LET r == compute_cpus(c_detected, c_arg) IN
       /\ c_stage' = IF r.exit THEN "exited" ELSE "computed"
       /\ c_cpus' = IF r.exit THEN c_cpus ELSE r.cpus
    /\ UNCHANGED << c_detected, c_arg >>
    /\ UNCHANGED << wvars, svars, avars >>

AssertCpus ==
    /\ c_stage = "computed"
    /\ c_stage' = IF assert_cpus(c_cpus) THEN "asserted" ELSE "panicked"
    /\ UNCHANGED << c_detected, c_arg, c_cpus >>
    /\ UNCHANGED << wvars, svars, avars >>

\* Lines 252-258: StateRef::new(.., cpus as u32, ..).
CreateState ==
    /\ c_stage = "asserted"
    /\ c_stage' = "state_created"
    /\ UNCHANGED << c_detected, c_arg, c_cpus >>
    /\ UNCHANGED << wvars, svars, avars >>

(***************************************************************************)
(* The worker's executor.                                                  *)
(***************************************************************************)
Init == WorkerInit /\ ServerInit /\ AsyncInit /\ CpuIdle

Next ==
    \E t \in Tasks :
        \/ InputFinished(t)
        \/ StartNoResources(t)
        \/ StartDispatchError(t)
        \/ StartBuiltin(t)
        \/ StartSubworker(t)
        \/ stop(t)
        \/ BuiltinEvent(t)
        \/ SubworkerEvent(t)
        \/ HelperResponse(t)
        \/ Poll(t)

Spec == Init /\ [][Next]_vars

(***************************************************************************)
(* The server, with a worker process that has started nothing.             *)
(***************************************************************************)
WorkerIdle ==
    /\ WorkerInit
    /\ task_type = [t \in Tasks |-> <<"!", "sleep">>]
    /\ task_resources = [t \in Tasks |-> 1]
    /\ n_outputs = [t \in Tasks |-> 0]

ServerSpecInit == WorkerIdle /\ ServerInit /\ AsyncInit /\ CpuIdle

ServerNext ==
    \/ \E o \in ObjIds : add_object(o)
    \/ \E o \in ObjIds : remove_object(o)
    \/ \E t \in TaskIds : add_task(t)
    \/ \E t \in TaskIds : remove_task(t)
    \/ \E w \in Workers, b \in Batches : update_states(w, b)
    \/ \E w \in Workers : get_client_session(w)
    \/ ReplyDelivered
    \/ \E w \in Workers : drop(w)

ServerSpec == ServerSpecInit /\ [][ServerNext]_vars

(***************************************************************************)
(* The worker's executor when the engine calls start for a running task.   *)
(***************************************************************************)
RestartInit == WorkerIdle /\ ServerInit /\ AsyncInit /\ CpuIdle

RestartNext ==
    \E t \in Tasks :
        \/ InputFinished(t)
        \/ StartNoResources(t)
        \/ StartDispatchError(t)
        \/ StartBuiltin(t)
        \/ StartAgain(t)
        \/ stop(t)
        \/ BuiltinEvent(t)
        \/ Poll(t)
        \/ OrphanPoll(t)

RestartSpec == RestartInit /\ [][RestartNext]_vars

(***************************************************************************)
(* One AsyncInitWrapper and its callers, beside an idle worker and server. *)
(***************************************************************************)
AsyncSpecInit == WorkerIdle /\ ServerInit /\ AsyncInit /\ CpuIdle

AsyncNext ==
    \/ \E i \in Waiters : wait(i)
    \/ \E i \in Waiters : drop_future(i)
    \/ \E v \in Values : set_value(v)
    \/ get

AsyncSpec == AsyncSpecInit /\ [][AsyncNext]_vars

(***************************************************************************)
(* The start of a worker process, for every detected cpu count and every   *)
(* --cpus argument.                                                        *)
(***************************************************************************)
CpuSpecInit == WorkerIdle /\ ServerInit /\ AsyncInit /\ CpuInit

CpuNext ==
    \/ ComputeCpus
    \/ AssertCpus
    \/ CreateState

CpuSpec == CpuSpecInit /\ [][CpuNext]_vars


(***************************************************************************)
(* Properties of the worker's executor.                                    *)
(***************************************************************************)
Terminal(t) == task_state[t] \in {"Finished", "Failed"}

OutputsFinished(t) == \A i \in 1..n_outputs[t] : out_finished[t][i]

RECURSIVE SumOver(_, _)
SumOver(f, S) ==
    IF S = {} THEN 0
    ELSE LET x == CHOOSE y \in S : TRUE IN f[x] + SumOver(f, S \ {x})

\* The cpus held by the tasks that are Running.
HeldCpus == SumOver(task_resources, { t \in Tasks : task_state[t] = "Running" })

\* C1: once a task that was started is Finished or Failed, alloc_resources
\* and free_resources were each called exactly once for it and the two calls
\* left the cpu counter where it was; at any time the counter is the
\* capacity minus what the Running tasks hold.
C1_ResourcesPaired ==
    /\ \A t \in Tasks :
         Terminal(t) => /\ h_alloc[t] = 1
                        /\ h_free[t] = 1
                        /\ h_net[t] = 0
    /\ free_cpus + HeldCpus = NCpus

\* Every exit path has been taken by some task, and all tasks are terminal.
C1_Witness ==
    /\ \A t \in Tasks : Terminal(t)
    /\ \E t \in Tasks : h_outcome[t] \in {"handler_ok", "handler_err", "cancel"}
    /\ \E t \in Tasks : h_outcome[t] = "dispatch_err"

\* C2: a task is Finished only if all its declared outputs are finished, and
\* a task whose handler completed successfully while some declared output is
\* not finished is Failed with the reason "Some of outputs were not produced".
C2_FinishedOnlyWithOutputs ==
    \A t \in Tasks :
        /\ task_state[t] = "Finished" => OutputsFinished(t)
        /\ (h_outcome[t] = "handler_ok" /\ ~OutputsFinished(t))
               => /\ task_state[t] = "Failed"
                  /\ task_error[t] = ReasonNotProduced

C2_Witness ==
    \E t \in Tasks :
        /\ h_outcome[t] = "handler_ok"
        /\ ~OutputsFinished(t)
        /\ task_state[t] = "Failed"

\* C3, as claimed: a terminal task is Finished exactly when all its declared
\* outputs are finished (stated for the tasks that declare an output and
\* whose handler was dispatched).
C3_FinishedIffOutputs ==
    \A t \in Tasks :
        (Terminal(t) /\ n_outputs[t] > 0 /\ h_outcome[t] # "dispatch_err") =>
            (task_state[t] = "Finished" <=> OutputsFinished(t))

\* C3, amended: a terminal task is Finished exactly when its handler
\* completed successfully and all its declared outputs are finished; a task
\* whose dispatch or handler failed, or that was cancelled, is Failed also
\* when all its declared outputs (possibly none) are finished.
C3_FinishedIffOkAndOutputs ==
    \A t \in Tasks :
        Terminal(t) =>
            (task_state[t] = "Finished"
                 <=> (h_outcome[t] = "handler_ok" /\ OutputsFinished(t)))

\* A cancelled task with at least one declared output, all of them finished.
C3_Witness ==
    \E t \in Tasks :
        /\ task_state[t] = "Failed"
        /\ h_outcome[t] = "cancel"
        /\ n_outputs[t] > 0
        /\ OutputsFinished(t)

\* C4, as claimed: of the handler's completion and the cancellation signal,
\* the one that happened first decides how the task is finalized.
C4_FirstEventWins ==
    \A t \in Tasks :
        (Terminal(t) /\ h_outcome[t] # "dispatch_err") =>
            /\ h_first[t] = "cancel" =>
                   (task_state[t] = "Failed" /\ task_error[t] = ReasonTerminated)
            /\ h_first[t] = "handler" =>
                   h_outcome[t] \in {"handler_ok", "handler_err"}

\* C4, amended: the race is decided when the spawned future is polled, and
\* the handler side is looked at first.  At the poll that finalizes a task:
\* if the handler has resolved, the task is finalized from the handler's
\* result, whether or not the cancellation was signalled (even earlier);
\* otherwise the cancellation was signalled and the task becomes Failed with
\* the reason "Task terminated by server".
C4_DecidedAtPoll ==
    [][ \A t \in Tasks :
          (t \in running_tasks /\ t \notin running_tasks') =>
              IF Resolving(event[t])
              THEN /\ h_outcome'[t] \in {"handler_ok", "handler_err"}
                   /\ task_error'[t] # ReasonTerminated
                   /\ (task_state'[t] = "Finished") =>
                          (event[t].kind \in {"done_ok", "app_ok"})
              ELSE /\ cancel_rx[t]
                   /\ task_state'[t] = "Failed"
                   /\ task_error'[t] = ReasonTerminated ]_vars

\* The cancellation was signalled first and the handler's result still won.
C4_Witness ==
    \E t \in Tasks :
        /\ h_first[t] = "cancel"
        /\ task_state[t] = "Finished"

\* C5: when the helper answers ok = false, the error message is the task's
\* failure reason and the helper handle was pushed back to the idle pool.
C5_AppFailureRecyclesHelper ==
    \A t \in Tasks :
        h_resp[t].kind = "app_fail" =>
            /\ task_state[t] = "Failed"
            /\ task_error[t] = ReasonApp
            /\ h_pushed[t] = 1

\* C6: when the run-task request fails at transport level, the task is
\* Failed and the helper handle was not pushed to the idle pool.
C6_TransportFailureDropsHelper ==
    \A t \in Tasks :
        h_resp[t].kind = "transport" =>
            /\ task_state[t] = "Failed"
            /\ h_pushed[t] = 0
            /\ \A k \in 1..Len(idle_subworkers) : idle_subworkers[k] # held_sw[t]

\* C7: when the helper answers ok = true, set_data was called exactly once
\* on every declared output and the helper handle was pushed exactly once.
C7_SuccessBindsEveryOutput ==
    \A t \in Tasks :
        h_resp[t].kind = "app_ok" =>
            /\ \A i \in 1..n_outputs[t] : out_set_data[t][i] = 1
            /\ h_pushed[t] = 1


(***************************************************************************)
(* Properties of update_states and of the release of the upstream handle.  *)
(* They speak of the call recorded in rpc: its batch, its result and the   *)
(* graph the call found (pre_objects, pre_tasks).                          *)
(***************************************************************************)
Called == rpc # NoCall /\ rpc.method = "update_states"

IdsOf(ds) == { ds[k].id : k \in 1..Len(ds) }

\* The state the last delta of ds that names id carries.
LastState(ds, id) ==
    LET K == { k \in 1..Len(ds) : ds[k].id = id }
        last == CHOOSE k \in K : \A j \in K : j <= k
    IN  ds[last].state

TombstonedObjs == IdsOf(rpc.batch.objs) \cap ignored_objects
TombstonedTasks == IdsOf(rpc.batch.tasks) \cap ignored_tasks
UnknownObjs ==
    { o \in IdsOf(rpc.batch.objs) :
          rpc.pre_objects[o] = "absent" /\ o \notin ignored_objects }
UnknownTasks ==
    { t \in IdsOf(rpc.batch.tasks) :
          rpc.pre_tasks[t] = "absent" /\ t \notin ignored_tasks }

NamesTombstone == TombstonedObjs # {} \/ TombstonedTasks # {}
NamesUnknown == UnknownObjs # {} \/ UnknownTasks # {}

\* The graph once every delta that names a registered id is applied and
\* every other delta is left out.
ObjectsWithLiveDeltas ==
    [o \in ObjIds |->
        IF o \in IdsOf(rpc.batch.objs) /\ rpc.pre_objects[o] # "absent"
        THEN LastState(rpc.batch.objs, o) ELSE rpc.pre_objects[o]]
TasksWithLiveDeltas ==
    [t \in TaskIds |->
        IF t \in IdsOf(rpc.batch.tasks) /\ rpc.pre_tasks[t] # "absent"
        THEN LastState(rpc.batch.tasks, t) ELSE rpc.pre_tasks[t]]

SkippedAndRestApplied ==
    /\ rpc.result = "ok"
    /\ s_objects = ObjectsWithLiveDeltas
    /\ s_tasks = TasksWithLiveDeltas
    /\ \A o \in TombstonedObjs : s_objects[o] = "absent"
    /\ \A t \in TombstonedTasks : s_tasks[t] = "absent"

\* C8, as claimed: whenever a batch names a removed (tombstoned) id, the RPC
\* succeeds, that delta changes nothing and the other deltas are applied.
C8_TombstoneSkippedAlways ==
    (Called /\ NamesTombstone) => SkippedAndRestApplied

\* C8, amended: when a batch names a removed (tombstoned) id and none of its
\* deltas names an id that is neither registered nor tombstoned, the RPC
\* succeeds, the tombstoned deltas change nothing and the other deltas are
\* applied.
C8_TombstoneSkipped ==
    (Called /\ NamesTombstone /\ ~NamesUnknown) => SkippedAndRestApplied

\* A batch with a tombstoned id whose other delta changed the graph.
C8_Witness ==
    /\ Called
    /\ NamesTombstone
    /\ rpc.result = "ok"
    /\ (s_objects # rpc.pre_objects \/ s_tasks # rpc.pre_tasks)

\* C9, as claimed: a delta whose id is neither registered nor tombstoned is
\* dropped, the RPC succeeds and the other deltas of the batch are applied.
C9_UnknownDropped ==
    (Called /\ NamesUnknown) =>
        /\ rpc.result = "ok"
        /\ s_objects = ObjectsWithLiveDeltas
        /\ s_tasks = TasksWithLiveDeltas

\* C9, amended: update_states silently drops only the deltas whose id is
\* tombstoned; the RPC returns an error exactly when some delta of the batch
\* names an id that is neither registered nor tombstoned.
C9_UnknownIsAnError ==
    Called => (rpc.result = "err" <=> NamesUnknown)

\* A batch with an unknown id beside a delta for a registered id.
C9_Witness ==
    /\ Called
    /\ NamesUnknown
    /\ rpc.result = "err"
    /\ \E o \in IdsOf(rpc.batch.objs) : rpc.pre_objects[o] # "absent"

\* C10: a worker whose upstream handle was released has left the registry
\* (remove_worker ran within the release), and no update_states call is
\* made on behalf of a worker whose handle had been released.
C10_ReleaseRemovesWorker ==
    /\ \A w \in Workers : w \notin upstream => w \notin s_workers
    /\ Called => /\ rpc.worker \notin rpc.released
                 /\ rpc.worker \in upstream

\* After the release of one worker, a batch of another worker was applied.
C10_Witness ==
    /\ Called
    /\ rpc.result = "ok"
    /\ rpc.released # {}
    /\ \E t \in TaskIds : s_tasks[t] = "Failed"

\* The step releases the upstream handle of worker w.
Released(w) == w \in upstream /\ w \notin upstream'

ErrorEnds(t) ==
    /\ h_outcome[t] = "none"
    /\ h_outcome'[t] \in {"dispatch_err", "handler_err"}

\* What the worker keeps for task u alone.
OwnState(u) ==
    << task_state[u], task_error[u], u \in running_tasks, u \in registered,
       cancel_sender[u], cancel_rx[u], stage[u], event[u], held_sw[u],
       out_finished[u], h_net[u], h_alloc[u], h_free[u] >>

\* C12: a step in which the dispatch or the handler of task t ends with an
\* error (Err of task_fn, Err of the handler future, an application or a
\* transport failure of the helper) leaves t Failed with a reason that is
\* not empty, does not panic, and changes neither the state, the resources
\* nor the TaskInstance of any other task.
C12_ErrorsAreContained ==
    [][\A t \in Tasks :
         ErrorEnds(t) =>
            /\ task_state'[t] = "Failed"
            /\ task_error'[t] # ""
            /\ ~panicked'
            /\ \A u \in Tasks \ {t} : OwnState(u)' = OwnState(u)]_vars

\* The helper of one task failed in transport and the task is Failed with
\* the reason, while another task is Running with its instance.
C12_Witness ==
    \E t \in Tasks : \E u \in Tasks \ {t} :
        /\ h_outcome[t] = "handler_err"
        /\ h_resp[t].kind = "transport"
        /\ task_state[t] = "Failed"
        /\ task_error[t] = ReasonTransport
        /\ task_state[u] = "Running"
        /\ u \in running_tasks
        /\ ~panicked

StateRank(st) ==
    CASE st = "Scheduled" -> 0
      [] st = "Running"   -> 1
      [] OTHER            -> 2

\* C13: the state of a task never moves backwards along
\* Scheduled -> Running -> {Finished, Failed}: a task that is Finished or
\* Failed keeps its state, and a Running task does not become Scheduled.
C13_StateMonotonic ==
    [][\A t \in Tasks :
         /\ StateRank(task_state'[t]) >= StateRank(task_state[t])
         /\ Terminal(t) => task_state'[t] = task_state[t]]_vars

\* One task went through Running to Finished, another was stopped while
\* Running and is Failed.
C13_Witness ==
    \E t \in Tasks : \E u \in Tasks \ {t} :
        /\ task_state[t] = "Finished"
        /\ h_outcome[t] = "handler_ok"
        /\ task_state[u] = "Failed"
        /\ h_outcome[u] = "cancel"

\* The step is a call of stop on the instance of t.
StopCalled(t) == h_stops'[t] = h_stops[t] + 1

\* C14, as claimed: after two or more calls of stop on one running instance
\* the signal was sent once, and once the task is finalized it was
\* finalized once and is Failed.
C14_StopTwiceFailsOnce ==
    \A t \in Tasks :
        h_stops[t] >= 2 =>
            /\ h_sent[t] = 1
            /\ Terminal(t) => /\ h_free[t] = 1
                              /\ t \notin running_tasks
                              /\ task_state[t] = "Failed"

\* C14, amended: however often stop is called on one running instance, the
\* cancellation signal is sent exactly once, by the first call; every later
\* call finds the sender absent, sends nothing and does not panic; the task
\* is finalized (resources freed, instance removed) exactly once, and it is
\* Failed with "Task terminated by server" when the finalizing poll found
\* the handler still pending; a handler that is ready at that poll decides
\* the state instead.
C14_StopSendsOnce ==
    /\ [](\A t \in Tasks :
            /\ h_sent[t] = (IF h_stops[t] >= 1 THEN 1 ELSE 0)
            /\ h_free[t] <= 1
            /\ Terminal(t) => (h_free[t] = 1 /\ t \notin running_tasks)
            /\ (Terminal(t) /\ h_outcome[t] = "cancel") =>
                  /\ task_state[t] = "Failed"
                  /\ task_error[t] = ReasonTerminated)
    /\ [][\A t \in Tasks :
            StopCalled(t) =>
                /\ ~panicked'
                /\ h_stops[t] >= 1 =>
                      /\ h_sent'[t] = h_sent[t]
                      /\ cancel_rx'[t] = cancel_rx[t]
                      /\ cancel_sender'[t] = "None"]_vars

\* stop was called twice on a running instance, one signal was sent, and
\* the task was finalized once, as terminated by the server.
C14_Witness ==
    \E t \in Tasks :
        /\ h_stops[t] = 2
        /\ h_sent[t] = 1
        /\ h_free[t] = 1
        /\ t \notin running_tasks
        /\ task_state[t] = "Failed"
        /\ task_error[t] = ReasonTerminated

\* The cpus of the tasks for which alloc_resources was called and
\* free_resources was not.
AllocatedCpus ==
    SumOver([t \in Tasks |-> (h_alloc[t] - h_free[t]) * task_resources[t]],
            Tasks)

\* C15: in every state the cpus allocated and not yet freed are at most the
\* capacity of the worker, and the counter of free cpus is the rest of it;
\* a start whose request exceeds what is free allocates nothing and marks
\* nothing Running: it ends the process at once.
C15_WithinCapacity ==
    /\ [](/\ AllocatedCpus <= NCpus
          /\ free_cpus = NCpus - AllocatedCpus
          /\ free_cpus >= 0)
    /\ [][\A t \in Tasks :
            (CanStart(t) /\ task_resources[t] > free_cpus) =>
                /\ h_alloc'[t] = h_alloc[t]
                /\ task_state'[t] = "Scheduled"
                /\ t \notin running_tasks']_vars
    /\ [][(~panicked /\ panicked') =>
            /\ \E t \in Tasks : CanStart(t) /\ task_resources[t] > free_cpus
            /\ UNCHANGED << free_cpus, h_alloc, task_state, running_tasks >>]_vars

\* One task holds cpus, the request of another did not fit and its start
\* ended the process; nothing was allocated for it.
C15_Witness ==
    \E t \in Tasks : \E u \in Tasks \ {t} :
        /\ task_state[t] = "Running"
        /\ panicked
        /\ task_state[u] = "Scheduled"
        /\ h_alloc[u] = 0
        /\ task_resources[u] > free_cpus
        /\ AllocatedCpus = task_resources[t]

\* start was called for t: it allocated, marked Running, called task_fn.
Started(t) == h_alloc[t] > 0

\* C16: start marks a task Running and dispatches its handler only when
\* every input object of the task is Finished: a task for which start was
\* called, or that is not Scheduled any more, has no unfinished input, and a
\* step that starts a task finds none.
C16_StartsWithFinishedInputs ==
    /\ [](\A t \in Tasks :
            (Started(t) \/ task_state[t] # "Scheduled" \/ stage[t] # "none")
                => in_unfinished[t] = 0)
    /\ [][\A t \in Tasks :
            (h_alloc'[t] > h_alloc[t] \/ task_state'[t] # task_state[t])
                => in_unfinished[t] = 0]_vars

\* One task was started after its input became Finished and is Running with
\* its handler dispatched; the other waits for its input although cpus are
\* free for it.
C16_Witness ==
    \E t \in Tasks : \E u \in Tasks \ {t} :
        /\ task_state[t] = "Running"
        /\ stage[t] # "none"
        /\ in_unfinished[t] = 0
        /\ task_state[u] = "Scheduled"
        /\ in_unfinished[u] > 0
        /\ Available(free_cpus, task_resources[u])
        /\ ~panicked

\* The first position of entry x in the log of t, or 0.
FirstAt(t, x) ==
    IF \E i \in 1..Len(task_log[t]) : task_log[t][i] = x
    THEN CHOOSE i \in 1..Len(task_log[t]) :
             /\ task_log[t][i] = x
             /\ \A j \in 1..(i - 1) : task_log[t][j] # x
    ELSE 0

\* C17: start publishes the Running state of a task before it chooses and
\* calls the handler: in the order of the calls the first entry of a task
\* is the Running update, task_fn comes after it, and so does every update
\* that publishes Failed or Finished; a task whose handler took a step (its
\* future exists, an event reached it, an output was set) or that reached a
\* final state has its Running update published.
C17_RunningPublishedFirst ==
    \A t \in Tasks :
        /\ task_log[t] # << >> => task_log[t][1] = Updated("Running")
        /\ \A i \in 1..Len(task_log[t]) :
              task_log[t][i] \in {"task_fn", Updated("Failed"),
                                  Updated("Finished")}
                  => /\ FirstAt(t, Updated("Running")) > 0
                     /\ FirstAt(t, Updated("Running")) < i
        /\ ( \/ stage[t] # "none"
             \/ event[t] # NoEvent
             \/ Terminal(t)
             \/ \E i \in 1..MaxOutputs : out_finished[t][i] )
               => FirstAt(t, Updated("Running")) = 1

\* A dispatch that failed published Running, called task_fn and published
\* Failed, in this order; another task published Running, was dispatched
\* and has set an output.
C17_Witness ==
    \E t \in Tasks : \E u \in Tasks \ {t} :
        /\ task_log[t] = << Updated("Running"), "task_fn", Updated("Failed") >>
        /\ task_state[t] = "Failed"
        /\ task_state[u] = "Running"
        /\ task_log[u] = << Updated("Running"), "task_fn" >>
        /\ \E i \in 1..MaxOutputs : out_finished[u][i]

\* C18: running_tasks holds the instance of a task exactly while the task
\* is Running: the instance is inserted by the start that dispatched the
\* handler (never by one whose dispatch failed), it is removed by the poll
\* that finalizes the task, whatever the outcome, and a task that is
\* Finished or Failed has no entry and gets none again.
C18_InstanceWhileRunning ==
    /\ [](\A t \in Tasks :
            /\ t \in running_tasks <=> task_state[t] = "Running"
            /\ Terminal(t) => t \notin running_tasks
            /\ h_outcome[t] = "dispatch_err" => stage[t] = "none")
    /\ [][\A t \in Tasks :
            /\ (t \notin running_tasks /\ t \in running_tasks') =>
                  /\ task_state[t] = "Scheduled"
                  /\ stage'[t] # "none"
                  /\ cancel_sender'[t] = "Some"
            /\ (t \in running_tasks /\ t \notin running_tasks') =>
                  /\ task_state'[t] \in {"Finished", "Failed"}
                  /\ h_free'[t] = h_free[t] + 1
                  /\ h_outcome'[t] \in {"handler_ok", "handler_err", "cancel"}]_vars

\* A task whose handler failed was finalized and has no entry, while the
\* instance of a Running task, with its sender, is in the map.
C18_Witness ==
    \E t \in Tasks : \E u \in Tasks \ {t} :
        /\ h_outcome[t] = "handler_err"
        /\ stage[t] = "dropped"
        /\ t \notin running_tasks
        /\ u \in running_tasks
        /\ cancel_sender[u] = "Some"
        /\ stage[u] # "none"

(***************************************************************************)
(* Properties of AsyncInitWrapper.                                         *)
(***************************************************************************)
\* Caller i called wait() before the value was set and still holds the
\* future it was given.
WaitsSinceBefore(i) == w_state[i] \in {"pending", "released"}

\* C19: a wait() made before set_value stays pending until set_value is
\* called and is resolved exactly once by that call: once set_value was
\* called every such waiter was released with one message and none is left
\* pending; no waiter is released before set_value or sent two messages; a
\* wait() made after set_value is ready at once.
C19_WaitersReleasedOnce ==
    \A i \in Waiters :
        /\ (h_sets = 0 /\ WaitsSinceBefore(i)) =>
              (w_state[i] = "pending" /\ w_signals[i] = 0)
        /\ (h_sets >= 1 /\ WaitsSinceBefore(i)) =>
              (w_state[i] = "released" /\ w_signals[i] = 1)
        /\ w_signals[i] <= 1
        /\ w_state[i] = "ready" => (h_sets >= 1 /\ w_signals[i] = 0)

\* The step is a call of set_value on a wrapper that is Ready.
SetAgain == h_sets' = h_sets + 1 /\ is_ready

\* C20: set_value on a wrapper that is Ready panics with "Element is
\* already finished", and the value published first is the only one get()
\* ever returns: the call that would overwrite it does not return, and
\* nothing reads the wrapper after it.
C20_SecondSetIsFatal ==
    /\ [](h_sets >= 2 => ai_panic = PanicAlreadyFinished)
    /\ [](h_got \subseteq {h_published})
    /\ [][SetAgain => (ai_panic' = PanicAlreadyFinished /\ h_got' = h_got)]_vars
    /\ [][ai_panic # "" => UNCHANGED avars]_vars

\* get() returned the published value, then set_value was called again with
\* another value: the process panicked, the wrapper holds the second value
\* and get() has returned the first only.
C20_Witness ==
    /\ h_sets = 2
    /\ ai_panic = PanicAlreadyFinished
    /\ h_got = {h_published}
    /\ ai_value # h_published
    /\ h_published \in Values

(***************************************************************************)
(* Properties of a repeated start.                                         *)
(***************************************************************************)
\* C21: a call of start for a task that has an entry in running_tasks ends
\* the process: no state is reached in which such a call was made and the
\* process goes on.
C21_RestartIsFatal ==
    \A t \in Tasks : h_restarts[t] > 0 => panicked

\* C22: in a batch of update_states that is applied, no task delta is applied
\* before an object delta of the same batch, and the batch is applied as one
\* step: the graph after the call is the graph the call found with the
\* deltas of this batch, objects then tasks, and nothing else.
RECURSIVE Replay(_, _, _)
Replay(objs, tasks, applied) ==
    IF applied = << >> THEN << objs, tasks >>
    ELSE LET u == Head(applied) IN
         IF u.kind = "object"
         THEN Replay([objs EXCEPT ![u.id] = u.state], tasks, Tail(applied))
         ELSE Replay(objs, [tasks EXCEPT ![u.id] = u.state], Tail(applied))

C22_ObjectsBeforeTasks ==
    (Called /\ rpc.result = "ok") =>
        /\ \A i \in 1..Len(rpc.applied) : \A j \in 1..Len(rpc.applied) :
               (rpc.applied[i].kind = "task" /\ rpc.applied[j].kind = "object")
                   => j < i
        /\ << s_objects, s_tasks >> =
               Replay(rpc.pre_objects, rpc.pre_tasks, rpc.applied)

C22_Witness ==
    /\ Called
    /\ rpc.result = "ok"
    /\ \E i \in 1..Len(rpc.applied) : rpc.applied[i].kind = "object"
    /\ \E i \in 1..Len(rpc.applied) : rpc.applied[i].kind = "task"
    /\ s_objects # rpc.pre_objects
    /\ s_tasks # rpc.pre_tasks

\* C23: whatever the detected cpu count and the --cpus value, the worker
\* state is created only with a capacity of at least 1; with a capacity of
\* 0 or less the process has ended before.
C23_CapacityPositive ==
    c_stage = "state_created" => c_cpus >= 1

\* C24: every call of get_client_session, in every state of the server, is
\* answered with the error "unimplemented", never with a success, and
\* leaves the graph, the ignored ids and the registry of workers as the
\* call found them.
SessionAsked == rpc # NoCall /\ rpc.method = "get_client_session"

C24_SessionUnimplemented ==
    SessionAsked =>
        /\ rpc.result = "unimplemented"
        /\ rpc.result # "ok"
        /\ rpc.pre = << s_objects, s_tasks, s_task_worker, s_task_error,
                        ignored_objects, ignored_tasks, s_workers, upstream >>
        /\ ~s_panicked

C24_Witness ==
    /\ SessionAsked
    /\ rpc.result = "unimplemented"
    /\ \E o \in ObjIds : s_objects[o] # "absent"
    /\ \E t \in TaskIds : s_tasks[t] = "Running"
    /\ upstream # Workers

\* The types with a built-in handler: !run, !concat, !sleep, !open.
BuiltinTypes ==
    { <<"!", "run">>, <<"!", "concat">>, <<"!", "sleep">>, <<"!", "open">> }

\* start was called for t in this step and got the resources.
Dispatched(t) == h_alloc'[t] = h_alloc[t] + 1

\* The built-in handler took the task (or returned its own error at once).
ByBuiltin(t) ==
    \/ stage'[t] = "builtin" /\ t \in running_tasks'
    \/ task_state'[t] = "Failed" /\ task_error'[t] = ReasonHandler

\* start_task_in_subworker took the task (or failed to get a helper).
BySubworker(t) ==
    \/ stage'[t] = "get_subworker" /\ t \in running_tasks' /\ held_sw'[t] # 0
    \/ task_state'[t] = "Failed" /\ task_error'[t] = ReasonSpawn

\* C25 as stated: a built-in type is executed by its built-in handler and
\* every other type is delegated to start_task_in_subworker.
C25_OthersDelegated ==
    [][ \A t \in Tasks :
          Dispatched(t) =>
              IF task_type[t] \in BuiltinTypes THEN ByBuiltin(t)
              ELSE BySubworker(t) ]_vars

\* C25, amended: the strategy follows from the type alone.  A built-in type
\* (!run, !concat, !sleep, !open) is executed by its built-in handler, a
\* type that does not start with "!" is delegated to
\* start_task_in_subworker, and any other type that starts with "!" is
\* given to neither: the task fails with "Unknown task type" and no helper
\* is asked for.
C25_DispatchByType ==
    [][ /\ \A ty \in TaskTypes :
             /\ ty \in BuiltinTypes <=> task_fn(ty) \in BuiltinFns
             /\ ~starts_with_bang(ty) <=> task_fn(ty) = "start_task_in_subworker"
        /\ \A t \in Tasks :
             Dispatched(t) =>
                 IF task_type[t] \in BuiltinTypes
                 THEN ByBuiltin(t) /\ ~BySubworker(t)
                 ELSE IF ~starts_with_bang(task_type[t])
                 THEN BySubworker(t) /\ ~ByBuiltin(t)
                 ELSE /\ task_state'[t] = "Failed"
                      /\ task_error'[t] = ReasonUnknownType
                      /\ t \notin running_tasks'
                      /\ stage'[t] = "none"
                      /\ held_sw'[t] = 0
                      /\ n_subworkers' = n_subworkers
                      /\ idle_subworkers' = idle_subworkers ]_vars

C25_Witness ==
    \E t \in Tasks : \E u \in Tasks \ {t} :
        /\ task_type[t] = <<"!", "bogus">>
        /\ task_state[t] = "Failed"
        /\ task_error[t] = ReasonUnknownType
        /\ h_alloc[t] = 1
        /\ task_type[u] = <<"", "py">>
        /\ stage[u] = "run_task"
        /\ held_sw[u] # 0

\* C26: when the handler chosen by start returns an error at once, the task
\* is Failed with that error ("Unknown task type" for a type that starts
\* with "!" and has no handler), its cpus are free again, it is
\* unregistered, exactly two updates were published (Running, then the
\* failure), and it never has an instance in running_tasks: no sender, no
\* signal, no call of stop, no handler future.
DispatchFailed(t) == h_outcome[t] = "dispatch_err"

C26_SyncErrorFailsTask ==
    \A t \in Tasks :
        DispatchFailed(t) =>
            /\ task_state[t] = "Failed"
            /\ task_error[t] \in DispatchErrors(t)
            /\ task_fn(task_type[t]) = "fail_unknown_type"
                   => task_error[t] = ReasonUnknownType
            /\ h_alloc[t] = 1 /\ h_free[t] = 1 /\ h_net[t] = 0
            /\ t \notin registered
            /\ task_log[t] = << Updated("Running"), "task_fn", Updated("Failed") >>
            /\ t \notin running_tasks
            /\ cancel_sender[t] = "None" /\ ~cancel_rx[t]
            /\ h_stops[t] = 0 /\ h_sent[t] = 0
            /\ stage[t] = "none" /\ held_sw[t] = 0

C26_Witness ==
    \E t \in Tasks : \E u \in Tasks \ {t} :
        /\ DispatchFailed(t)
        /\ task_error[t] = ReasonUnknownType
        /\ DispatchFailed(u)
        /\ task_error[u] = ReasonHandler
        /\ free_cpus = NCpus
        /\ running_tasks = {}

\* The poll of this step finalizes t.
Finalizes(t) == h_outcome[t] = "none" /\ h_outcome'[t] # "none"

\* C27: at the poll that finalizes a task, a handler future that has
\* resolved decides the outcome, also when stop() was called before that
\* poll; the task is finalized as terminated exactly when the handler is
\* still pending at that poll and the cancellation signal is in the
\* channel.
C27_HandlerPolledFirst ==
    [][ \A t \in Tasks :
          (Finalizes(t) /\ t \in running_tasks) =>
              /\ HandlerPoll(t).resolved =>
                     /\ h_outcome'[t] = IF HandlerPoll(t).ok THEN "handler_ok"
                                        ELSE "handler_err"
                     /\ task_error'[t] \in {"", ReasonNotProduced,
                                            HandlerPoll(t).err}
                     /\ task_error'[t] # ReasonTerminated
              /\ (h_outcome'[t] = "cancel") <=>
                     (~HandlerPoll(t).resolved /\ cancel_rx[t])
              /\ (h_outcome'[t] = "cancel") =>
                     /\ h_sent[t] = 1
                     /\ task_state'[t] = "Failed"
                     /\ task_error'[t] = ReasonTerminated ]_vars

\* stop() was called for t, and t was finalized from the error of its
\* handler all the same; u was finalized as terminated.
C27_Witness ==
    \E t \in Tasks : \E u \in Tasks \ {t} :
        /\ h_sent[t] = 1
        /\ h_outcome[t] = "handler_err"
        /\ task_error[t] = ReasonHandler
        /\ h_outcome[u] = "cancel"
        /\ task_error[u] = ReasonTerminated

\* t was delegated, got a helper and was finalized by the cancellation.
CancelledDelegated(t) ==
    /\ task_fn(task_type[t]) = "start_task_in_subworker"
    /\ h_outcome[t] = "cancel"
    /\ held_sw[t] # 0

InPool(sw) == \E i \in 1..Len(idle_subworkers) : idle_subworkers[i] = sw

\* C28: after a delegated task was cancelled while its request to the helper
\* was outstanding, the handler future is dropped, the helper it held was
\* never pushed to idle_subworkers, is not in the pool and serves no running
\* task, and no answer of the helper was processed.
C28_CancelledHelperNotPooled ==
    \A t \in Tasks :
        CancelledDelegated(t) =>
            /\ stage[t] = "dropped"
            /\ h_pushed[t] = 0
            /\ ~InPool(held_sw[t])
            /\ h_resp[t] = NoEvent
            /\ \A u \in running_tasks \ {t} : held_sw[u] # held_sw[t]

\* u finished and its helper went to the pool; t got that helper from the
\* pool (a helper that is ready at once, so the request was sent by the
\* first poll) and was cancelled: the helper is in the pool no more.
C28_Witness ==
    \E t \in Tasks : \E u \in Tasks \ {t} :
        /\ CancelledDelegated(t)
        /\ h_pushed[u] = 1
        /\ held_sw[u] = held_sw[t]
        /\ ~InPool(held_sw[t])
        /\ idle_subworkers = << >>

\* C29: when a delta of the batch, object or task, names an id that is
\* neither ignored nor in the graph, update_states returns an error and
\* the graph is as the call found it: no delta of the batch was applied,
\* the valid ones before the unknown id included.
C29_AllOrNothing ==
    (Called /\ NamesUnknown) =>
        /\ rpc.result = "err"
        /\ rpc.applied = << >>
        /\ s_objects = rpc.pre_objects
        /\ s_tasks = rpc.pre_tasks

\* The batch starts with a delta that would finish a registered object and
\* goes on with a task delta for an unknown id.
C29_Witness ==
    /\ Called
    /\ rpc.result = "err"
    /\ Len(rpc.batch.objs) >= 1
    /\ rpc.pre_objects[rpc.batch.objs[1].id] = "Unfinished"
    /\ UnknownObjs = {}
    /\ UnknownTasks # {}
    /\ s_objects = rpc.pre_objects

\* The positions in the Vec of senders whose receiver was dropped.
Abandoned == { k \in 1..Len(ai_senders) : w_state[ai_senders[k]] = "dropped" }

FirstAbandoned == CHOOSE k \in Abandoned : \A j \in Abandoned : k <= j

\* The step is a call of set_value on a wrapper that is Initing.
SetFirst == h_sets' = h_sets + 1 /\ ~is_ready

\* C30: set_value on a wrapper one of whose waiters has dropped its future
\* panics on the failed send.  Ready(value) is in place by then; the
\* waiters registered before the abandoned one got their message, those
\* registered after it got none from this call.  Without an abandoned
\* waiter the call returns.
C30_AbandonedWaiterPanics ==
    [][ SetFirst =>
          IF Abandoned # {}
          THEN /\ ai_panic' = PanicSend
               /\ ai_state' = "Ready"
               /\ ai_value' = h_published'
               /\ \A k \in 1..Len(ai_senders) :
                      LET i == ai_senders[k] IN
                      IF k < FirstAbandoned
                      THEN w_state'[i] = "released"
                           /\ w_signals'[i] = w_signals[i] + 1
                      ELSE w_state'[i] = w_state[i]
                           /\ w_signals'[i] = w_signals[i]
          ELSE ai_panic' = "" ]_vars

\* Three callers wait, the second drops its future, set_value is called:
\* the first is released, the third is left pending, the process panicked
\* with the value in place.
C30_Witness ==
    /\ ai_panic = PanicSend
    /\ ai_state = "Ready"
    /\ ai_value = h_published
    /\ \E i \in Waiters : w_state[i] = "released" /\ w_signals[i] = 1
    /\ \E i \in Waiters : w_state[i] = "dropped"
    /\ \E i \in Waiters : w_state[i] = "pending" /\ w_signals[i] = 0

====
